---- MODULE Spec2Model ----
(***************************************************************************)
(* The quote/schedule coordinator of the FairFix front end (the App        *)
(* component): its React state cells, its memoised derivations, and one    *)
(* action per event handler.  handleSubmit is an async function with one   *)
(* suspension (the fetch and the json() that follows it write no state in  *)
(* between), so it is two actions: the part before the await and the part  *)
(* that runs when the request settles.                                     *)
(*                                                                         *)
(* The upload page (frontend/js/upload.js) is a second, independent        *)
(* script: a simulated scan whose progress is driven by timers.            *)
(***************************************************************************)
EXTENDS Integers, Sequences, FiniteSets, TLC

VARIABLES
  mode,            \* useState<Mode>: "quote" | "schedule" | NoMode (null)
  vehicle,         \* useState: [year, make, model, mileage, zip_code] of texts
  serviceName,     \* useState: one of SERVICE_OPTIONS
  loading,         \* useState<boolean>
  error,           \* useState<string | null>
  quotes,          \* useState<Quote[] | null>
  schedule,        \* useState<ScheduleItem[] | null>
  mapCenter,       \* useState<MapCenter | null>
  activeQuoteId,   \* useState<string | null>
  quotesWithId,    \* useMemo cell, deps [quotes]
  dealers,         \* useMemo cell, deps [quotesWithId]
  indys,           \* useMemo cell, deps [quotesWithId]
  dealerAverage,   \* useMemo cell, deps [dealers]
  inflight,        \* per endpoint, how many handleSubmit calls are suspended at its fetch
  edits,           \* number of form edits made so far (bounds the exploration)
  lastEvent,       \* the handler that ran last and what it was given
  log,             \* the requests issued and the answers received, in order
                   \* (kept by the race specification only)
  \* the upload page
  progressTimeouts, \* let progressTimeouts: the timer ids kept by the script
  timers,          \* the browser's pending timers: id, time left, callback
  nextTimerId,     \* the id the next setTimeout returns
  display,         \* progressContainer.style.display
  width,           \* progressBar.style.width, in percent
  label,           \* progressLabel.textContent
  href,            \* window.location.href
  unloaded,        \* the navigation has replaced the page
  boxActive,       \* uploadBox has the class upload-box--active
  starts,          \* number of startSimulation calls so far
  redirects,       \* redirect callbacks run since the last startSimulation
  cancelled        \* pending timers cancelled so far

state == <<mode, vehicle, serviceName, loading, error, quotes, schedule,
           mapCenter, activeQuoteId>>
uploadVars == <<progressTimeouts, timers, nextTimerId, display, width, label,
                href, unloaded, boxActive, starts, redirects, cancelled>>
coordinatorVars == <<mode, vehicle, serviceName, loading, error, quotes,
                     schedule, mapCenter, activeQuoteId, quotesWithId, dealers,
                     indys, dealerAverage, inflight, edits, lastEvent, log>>
vars == <<mode, vehicle, serviceName, loading, error, quotes, schedule,
          mapCenter, activeQuoteId, quotesWithId, dealers, indys,
          dealerAverage, inflight, edits, lastEvent, log,
          progressTimeouts, timers, nextTimerId, display, width, label,
          href, unloaded, boxActive, starts, redirects, cancelled>>

----------------------------------------------------------------------------
(* Bounds of the exploration.                                              *)

MaxInflight == 2
MaxRespQuotes == 2
MaxListQuotes == 3
MaxEdits == 1
MaxStarts == 2

----------------------------------------------------------------------------
(* Nullable values: null is the empty set, a present value v is {v}.       *)

Null == {}
Some(v) == {v}
Val(o) == CHOOSE v \in o : TRUE

\* JavaScript's a ?? b, for a nullable a and a present b
CoalesceKeep(o, default) == o
Coalesce(o, default) == IF o = Null THEN Some(default) ELSE o

\* truthiness of an optional number: undefined/null and 0 are falsy
Present(o) == o # Null
Truthy(o) == o # Null /\ Val(o) # 0

----------------------------------------------------------------------------
(* Values.                                                                 *)

Endpoints == {"/quotes", "/schedule"}

NoMode == "null"
Modes == {NoMode, "quote", "schedule"}

SERVICE_OPTIONS ==
  << "Brake Pad Replacement", "Oil Change", "Battery Replacement",
     "Tire Rotation", "Spark Plug Service" >>

Fields == {"year", "make", "model", "mileage", "zip_code"}

\* Texts are sequences of characters.
Whitespace == {" "}
EmptyText == << >>
TypedText == << " ", "x", " " >>
Texts == {EmptyText, TypedText}

RECURSIVE TrimStart(_)
TrimStart(s) ==
  IF s # << >> /\ Head(s) \in Whitespace THEN TrimStart(Tail(s)) ELSE s

RECURSIVE TrimEnd(_)
TrimEnd(s) ==
  IF s # << >> /\ s[Len(s)] \in Whitespace
    THEN TrimEnd(SubSeq(s, 1, Len(s) - 1))
    ELSE s

\* String.prototype.trim
Trim(s) == TrimEnd(TrimStart(s))

MkQuote(n, p, t) ==
  [name |-> n, price |-> p, type |-> t, distance |-> 3, lat |-> 1, lng |-> 1]

\* Quotes the /quotes endpoint may return.
AcmeDealer == MkQuote("Acme Dealer", 1000, "Dealer")
JoesShop == MkQuote("Joe's Shop", 900, "Indy")
WidePool ==
  { AcmeDealer, JoesShop,
    MkQuote("City Dealer", 1200, "Dealer"),
    MkQuote("Metro Dealer", 1201, "Dealer"),
    MkQuote("Main St Garage", 1200, "Indy") }

SeqsUpTo(S, n) == UNION { [1..k -> S] : k \in 0..n }

\* Quote lists of every length up to n, taken from one listing of shops.
Listing == << AcmeDealer, JoesShop, MkQuote("City Dealer", 1200, "Dealer") >>
Prefixes(n) ==
  { SubSeq(Listing, 1, k) : k \in { j \in 0..n : j <= Len(Listing) } }

ScheduleItem ==
  [service_task |-> "Oil Change", interval_miles |-> 5000,
   description |-> "Replace engine oil", severity |-> "Low"]

QUOTES_FAILED == "Unable to fetch quotes. Try again."
SCHEDULE_FAILED == "Unable to load schedule. Try again."
GENERIC_FAILED == "Something went wrong."

\* Values a rejected promise can carry.  The messages of the engine's own
\* errors differ between browsers; these stand for them.
JsError(msg) == [isError |-> TRUE, message |-> msg]
NetworkError == JsError("Failed to fetch")
ParseError == JsError("Unexpected token < in JSON at position 0")
NullBodyError == JsError("Cannot read properties of null (reading 'quotes')")
NonErrorValue == [isError |-> FALSE, message |-> "timeout"]

----------------------------------------------------------------------------
(* What the server can answer.  A fetch either rejects, or resolves with a *)
(* response whose status is not 2xx, or resolves with a 2xx response whose *)
(* json() rejects or yields the parsed body.                               *)

FetchResult(t, th, d) == [tag |-> t, thrown |-> th, data |-> d]

Failures ==
  { FetchResult("fetchRejects", Some(NetworkError), Null),
    FetchResult("fetchRejects", Some(NonErrorValue), Null),
    FetchResult("notOk", Null, Null),
    FetchResult("jsonRejects", Some(ParseError), Null) }

\* center is absent, or an object whose lat / lng may be absent or 0
Centers ==
  { Null,
    Some([lat |-> Some(37), lng |-> Some(-122)]),
    Some([lat |-> Some(0), lng |-> Some(-122)]),
    Some([lat |-> Some(37), lng |-> Null]) }

\* 2xx bodies of /quotes: null, or an object whose quotes field may be absent
QuoteBodies(lists) ==
  { Null } \union
  { Some([quotes |-> q, center |-> c]) :
      q \in { Null } \union { Some(l) : l \in lists },
      c \in Centers }

\* 2xx bodies of /schedule: null or an array
ScheduleBodies == { Null, Some(<< >>), Some(<< ScheduleItem >>) }

Bodies(endpoint, lists) ==
  IF endpoint = "/quotes" THEN QuoteBodies(lists) ELSE ScheduleBodies

FetchResults(endpoint, lists) ==
  Failures \union
  { FetchResult("body", Null, d) : d \in Bodies(endpoint, lists) }

----------------------------------------------------------------------------
(* The memoised derivations (useMemo): recomputed when a dependency has    *)
(* changed, otherwise the cached value is kept.                            *)

useMemoStale(compute, depsChanged, cached) == cached
useMemo(compute, depsChanged, cached) ==
  IF depsChanged THEN compute ELSE cached

QuoteIdFromOne(index) == "quote-" \o ToString(index + 1)
QuoteId(index) == "quote-" \o ToString(index)

\* { ...quote, id }
WithId(quote, index) ==
  [name |-> quote.name, price |-> quote.price, type |-> quote.type,
   distance |-> quote.distance, lat |-> quote.lat, lng |-> quote.lng,
   id |-> QuoteId(index)]

\* quotes?.map((quote, index) => ...) ?? []
ComputeQuotesWithId(q) ==
  IF q = Null
    THEN << >>
    ELSE [i \in 1..Len(Val(q)) |-> WithId(Val(q)[i], i - 1)]

IsDealer(quote) == quote.type = "Dealer"
IsAnyType(quote) == TRUE
IsIndy(quote) == quote.type = "Indy"
ComputeDealers(qs) == SelectSeq(qs, IsDealer)
ComputeIndys(qs) == SelectSeq(qs, IsIndy)

\* dealers.reduce((sum, quote) => sum + quote.price, 0)
RECURSIVE Total(_)
Total(qs) == IF qs = << >> THEN 0 ELSE Head(qs).price + Total(Tail(qs))

\* Math.round(num / den), den > 0: the nearest integer, a half going up
MathFloor(num, den) == num \div den
MathRound(num, den) == (2 * num + den) \div (2 * den)

ComputeDealerAverage(ds) ==
  IF Len(ds) = 0 THEN 0 ELSE MathRound(Total(ds), Len(ds))

Max(a, b) == IF a >= b THEN a ELSE b

\* Math.max(0, dealerAverage - quote.price), computed per rendered card
SavingsUnclamped(quote) == dealerAverage - quote.price
Savings(quote) == Max(0, dealerAverage - quote.price)

\* {savings > 0 && <p>Save ...</p>}
ShowsSave(quote) == Savings(quote) > 0

\* The render that follows every state change refreshes the memo cells.
Render ==
  /\ quotesWithId' =
       useMemo(ComputeQuotesWithId(quotes'), quotes' # quotes, quotesWithId)
  /\ dealers' =
       useMemo(ComputeDealers(quotesWithId'), quotesWithId' # quotesWithId,
               dealers)
  /\ indys' =
       useMemo(ComputeIndys(quotesWithId'), quotesWithId' # quotesWithId,
               indys)
  /\ dealerAverage' =
       useMemo(ComputeDealerAverage(dealers'), dealers' # dealers,
               dealerAverage)

\* {mode === "schedule" && schedule && ...}: hidden, the empty-state
\* message, or the list
ScheduleSection ==
  IF mode = "schedule" /\ schedule # Null
    THEN IF Len(Val(schedule)) = 0 THEN "empty" ELSE "list"
    ELSE "hidden"

\* {mode === "quote" && quotes && mapCenter && ...}
QuoteSectionShown == mode = "quote" /\ quotes # Null /\ mapCenter # Null

\* What lastEvent records: the handler, what it was given, how a settled
\* request ended, and the request a handleSubmit call sent (if any).
Event(op, on, outcome) ==
  [op |-> op, on |-> on, outcome |-> outcome, sent |-> Null]
Sent(request) ==
  [op |-> "handleSubmit", on |-> request.endpoint, outcome |-> "-",
   sent |-> Some(request)]

----------------------------------------------------------------------------
(* The state after the component is first rendered.                        *)

Init ==
  /\ mode = NoMode
  /\ vehicle = [f \in Fields |-> EmptyText]
  /\ serviceName = SERVICE_OPTIONS[1]
  /\ loading = FALSE
  /\ error = Null
  /\ quotes = Null
  /\ schedule = Null
  /\ mapCenter = Null
  /\ activeQuoteId = Null
  /\ quotesWithId = ComputeQuotesWithId(Null)
  /\ dealers = ComputeDealers(ComputeQuotesWithId(Null))
  /\ indys = ComputeIndys(ComputeQuotesWithId(Null))
  /\ dealerAverage = ComputeDealerAverage(ComputeDealers(ComputeQuotesWithId(Null)))
  /\ inflight = [e \in Endpoints |-> 0]
  /\ edits = 0
  /\ lastEvent = Event("mount", "-", "-")
  /\ log = << >>
  /\ progressTimeouts = << >>
  /\ timers = {}
  /\ nextTimerId = 1
  /\ display = "none"
  /\ width = 0
  /\ label = ""
  /\ href = "upload.html"
  /\ unloaded = FALSE
  /\ boxActive = FALSE
  /\ starts = 0
  /\ redirects = 0
  /\ cancelled = 0

----------------------------------------------------------------------------
(* The handlers.                                                           *)

\* The earlier variant of the component, which has no map state to clear.
handleModeChangeNoMap(nextMode) ==
  /\ mode' = nextMode
  /\ error' = Null
  /\ quotes' = Null
  /\ schedule' = Null
  /\ UNCHANGED <<mapCenter, activeQuoteId>>
  /\ UNCHANGED <<vehicle, serviceName, loading, inflight, edits>>
  /\ Render
  /\ lastEvent' = Event("handleModeChange", nextMode, "-")

\* A variant that also resets the form.
handleModeChangeResetsForm(nextMode) ==
  /\ mode' = nextMode
  /\ error' = Null
  /\ quotes' = Null
  /\ schedule' = Null
  /\ mapCenter' = Null
  /\ activeQuoteId' = Null
  /\ vehicle' = [f \in Fields |-> EmptyText]
  /\ UNCHANGED <<serviceName, loading, inflight, edits>>
  /\ Render
  /\ lastEvent' = Event("handleModeChange", nextMode, "-")

handleModeChange(nextMode) ==
  /\ mode' = nextMode
  /\ error' = Null
  /\ quotes' = Null
  /\ schedule' = Null
  /\ mapCenter' = Null
  /\ activeQuoteId' = Null
  /\ UNCHANGED <<vehicle, serviceName, loading, inflight, edits>>
  /\ Render
  /\ lastEvent' = Event("handleModeChange", nextMode, "-")

\* The inputs exist only while the form is rendered ({mode && ...}), the
\* zip code input only in quote mode.
updateVehicle(field, value) ==
  /\ mode # NoMode
  /\ field = "zip_code" => mode = "quote"
  /\ edits < MaxEdits
  /\ edits' = edits + 1
  /\ vehicle' = [vehicle EXCEPT ![field] = value]
  /\ UNCHANGED <<mode, serviceName, loading, error, quotes, schedule,
                 mapCenter, activeQuoteId, inflight>>
  /\ Render
  /\ lastEvent' = Event("updateVehicle", "-", "-")

\* The service <select> is rendered in quote mode only.
setServiceName(value) ==
  /\ mode = "quote"
  /\ edits < MaxEdits
  /\ edits' = edits + 1
  /\ serviceName' = value
  /\ UNCHANGED <<mode, vehicle, loading, error, quotes, schedule,
                 mapCenter, activeQuoteId, inflight>>
  /\ Render
  /\ lastEvent' = Event("setServiceName", "-", "-")

\* new URLSearchParams({...}) of the branch the mode selects
QuoteParams ==
  [service_name |-> serviceName,
   make |-> Trim(vehicle.make),
   model |-> Trim(vehicle.model),
   year |-> Trim(vehicle.year),
   zip_code |-> Trim(vehicle.zip_code)]

ScheduleParams ==
  [make |-> Trim(vehicle.make),
   model |-> Trim(vehicle.model),
   year |-> Trim(vehicle.year),
   mileage |-> Trim(vehicle.mileage)]

\* The URL fetched: the mode read by handleSubmit picks the branch.
RequestToQuotes == [endpoint |-> "/quotes", params |-> QuoteParams]
Request ==
  IF mode = "quote"
    THEN [endpoint |-> "/quotes", params |-> QuoteParams]
    ELSE [endpoint |-> "/schedule", params |-> ScheduleParams]

\* What the suspended handler still reads of its request: the branch it is in.
Pending(request) == request.endpoint

\* The number of requests not yet settled.
InFlight == inflight["/quotes"] + inflight["/schedule"]

\* handleSubmit up to its await: the guard, the two setters, the fetch.
handleSubmitUnguarded ==
  /\ InFlight < MaxInflight
  /\ loading' = TRUE
  /\ error' = Null
  /\ inflight' = [inflight EXCEPT ![Pending(Request)] = @ + 1]
  /\ UNCHANGED <<mode, vehicle, serviceName, quotes, schedule, mapCenter,
                 activeQuoteId, edits>>
  /\ Render
  /\ lastEvent' = Sent(Request)

handleSubmit ==
  IF mode = NoMode
    THEN /\ UNCHANGED <<state, inflight, edits>>
         /\ Render
         /\ lastEvent' = Event("handleSubmit", "-", "-")
    ELSE /\ InFlight < MaxInflight
         /\ loading' = TRUE
         /\ error' = Null
         /\ inflight' = [inflight EXCEPT ![Pending(Request)] = @ + 1]
         /\ UNCHANGED <<mode, vehicle, serviceName, quotes, schedule,
                        mapCenter, activeQuoteId, edits>>
         /\ Render
         /\ lastEvent' = Sent(Request)

\* throw new Error("Unable to ...") of each branch
NotOkMessageSwapped(endpoint) ==
  IF endpoint = "/quotes" THEN SCHEDULE_FAILED ELSE QUOTES_FAILED
NotOkMessage(endpoint) ==
  IF endpoint = "/quotes" THEN QUOTES_FAILED ELSE SCHEDULE_FAILED

\* What the try block throws for a settled request, if anything: the
\* rejection of fetch or of json(), the Error of a non-2xx status, or the
\* TypeError of reading data.quotes of a null body.
TryThrown(endpoint, res) ==
  IF res.tag \in {"fetchRejects", "jsonRejects"} THEN res.thrown
  ELSE IF res.tag = "notOk" THEN Some(JsError(NotOkMessage(endpoint)))
  ELSE IF endpoint = "/quotes" /\ res.data = Null THEN Some(NullBodyError)
  ELSE Null

\* err instanceof Error ? err.message : "Something went wrong."
CatchMessage(err) == IF err.isError THEN err.message ELSE GENERIC_FAILED

\* data.center?.lat, data.center?.lng
CenterLat(data) == IF data.center = Null THEN Null ELSE Val(data.center).lat
CenterLng(data) == IF data.center = Null THEN Null ELSE Val(data.center).lng

\* setSchedule(null) of the quote branch
ScheduleAfterQuotesKept == schedule
ScheduleAfterQuotes == Null

\* setLoading(false) of the finally block
LoadingAfterSettleOnSuccess(thrown) == IF thrown # Null THEN loading ELSE FALSE
LoadingAfterSettle(thrown) == FALSE

\* How a settled request is told apart in lastEvent.
Outcome(endpoint, res) ==
  IF res.tag = "body" /\ res.data = Null THEN "nullBody"
  ELSE IF res.tag = "body" /\ endpoint = "/schedule" /\ res.data = Some(<< >>)
    THEN "emptyArray"
  ELSE res.tag

\* handleSubmit from its await on: the rest of the try block, the catch and
\* the finally.  The branch is the one the mode selected when the request
\* was made.
handleSubmitSettled(req, res) ==
  /\ inflight[req] > 0
  /\ inflight' = [inflight EXCEPT ![req] = @ - 1]
  /\ LET thrown == TryThrown(req, res) IN
       /\ IF thrown # Null
            THEN /\ error' = Some(CatchMessage(Val(thrown)))
                 /\ UNCHANGED <<quotes, schedule, mapCenter>>
            ELSE IF req = "/quotes"
              THEN LET data == Val(res.data) IN
                     /\ quotes' = Coalesce(data.quotes, << >>)
                     /\ mapCenter' =
                          IF Truthy(CenterLat(data)) /\ Truthy(CenterLng(data))
                            THEN Some([lat |-> Val(CenterLat(data)),
                                       lng |-> Val(CenterLng(data))])
                            ELSE mapCenter
                     /\ schedule' = ScheduleAfterQuotes
                     /\ UNCHANGED error
              ELSE /\ schedule' = Coalesce(res.data, << >>)
                   /\ quotes' = Null
                   /\ UNCHANGED <<mapCenter, error>>
       /\ loading' = LoadingAfterSettle(thrown)
  /\ UNCHANGED <<mode, vehicle, serviceName, activeQuoteId, edits>>
  /\ Render
  /\ lastEvent' = Event("handleSubmitSettled", req, Outcome(req, res))

\* The two mode buttons.
ModeButtons == {"quote", "schedule"}

Ids(qs) == { qs[i].id : i \in 1..Len(qs) }

\* The cards exist while the quote section is rendered.
onMouseEnter(id) ==
  /\ QuoteSectionShown
  /\ id \in Ids(dealers) \union Ids(indys)
  /\ activeQuoteId' = Some(id)
  /\ UNCHANGED <<mode, vehicle, serviceName, loading, error, quotes,
                 schedule, mapCenter, inflight, edits>>
  /\ Render
  /\ lastEvent' = Event("onMouseEnter", id, "-")

onMouseLeave(id) ==
  /\ QuoteSectionShown
  /\ id \in Ids(dealers) \union Ids(indys)
  /\ activeQuoteId' = Null
  /\ UNCHANGED <<mode, vehicle, serviceName, loading, error, quotes,
                 schedule, mapCenter, inflight, edits>>
  /\ Render
  /\ lastEvent' = Event("onMouseLeave", "-", "-")

\* The pins exist while the quote section is rendered and the map script
\* has loaded (ShopMap's early returns); the script is taken to be loaded.
onPinClick(id) ==
  /\ QuoteSectionShown
  /\ id \in Ids(quotesWithId)
  /\ activeQuoteId' = Some(id)
  /\ UNCHANGED <<mode, vehicle, serviceName, loading, error, quotes,
                 schedule, mapCenter, inflight, edits>>
  /\ Render
  /\ lastEvent' = Event("onPinClick", id, "-")

----------------------------------------------------------------------------
(* The coordinator under every interleaving of its handlers.               *)

PossibleIds == { QuoteId(i) : i \in 0..(MaxRespQuotes - 1) }

Next ==
  \/ \E nextMode \in Modes : handleModeChange(nextMode) /\ UNCHANGED <<log, uploadVars>>
  \/ \E field \in Fields, value \in Texts :
       updateVehicle(field, value) /\ UNCHANGED <<log, uploadVars>>
  \/ \E i \in 1..Len(SERVICE_OPTIONS) :
       setServiceName(SERVICE_OPTIONS[i]) /\ UNCHANGED <<log, uploadVars>>
  \/ handleSubmit /\ UNCHANGED <<log, uploadVars>>
  \/ \E req \in Endpoints :
       \E res \in FetchResults(req, Prefixes(MaxRespQuotes)) :
         handleSubmitSettled(req, res) /\ UNCHANGED <<log, uploadVars>>
  \/ \E id \in PossibleIds : onMouseEnter(id) /\ UNCHANGED <<log, uploadVars>>
  \/ \E id \in PossibleIds : onMouseLeave(id) /\ UNCHANGED <<log, uploadVars>>
  \/ \E id \in PossibleIds : onPinClick(id) /\ UNCHANGED <<log, uploadVars>>

Spec == Init /\ [][Next]_vars

----------------------------------------------------------------------------
(* The quote flow alone, one request at a time, with the server answering  *)
(* every quote list up to MaxListQuotes over WidePool: the inputs of the   *)
(* derivations.                                                            *)

ListResults ==
  Failures \union
  { FetchResult("body", Null,
                Some([quotes |-> Some(l),
                      center |-> Some([lat |-> Some(37), lng |-> Some(-122)])])) :
      l \in SeqsUpTo(WidePool, MaxListQuotes) }

NextLists ==
  \/ handleModeChange("quote") /\ UNCHANGED <<log, uploadVars>>
  \/ loading = FALSE /\ handleSubmit /\ UNCHANGED <<log, uploadVars>>
  \/ \E res \in ListResults :
       handleSubmitSettled("/quotes", res) /\ UNCHANGED <<log, uploadVars>>

SpecLists == Init /\ [][NextLists]_vars

----------------------------------------------------------------------------
(* Submits gated by the loading flag: handleSubmit is called only while    *)
(* loading is false, which is what the disabled submit button enforces.    *)

\* <button type="submit" disabled={loading}>
SubmitAlwaysEnabled == TRUE
SubmitEnabled == loading = FALSE

NextGated ==
  \/ \E nextMode \in Modes : handleModeChange(nextMode) /\ UNCHANGED <<log, uploadVars>>
  \/ \E field \in Fields, value \in Texts :
       updateVehicle(field, value) /\ UNCHANGED <<log, uploadVars>>
  \/ \E i \in 1..Len(SERVICE_OPTIONS) :
       setServiceName(SERVICE_OPTIONS[i]) /\ UNCHANGED <<log, uploadVars>>
  \/ SubmitEnabled /\ handleSubmit /\ UNCHANGED <<log, uploadVars>>
  \/ \E req \in Endpoints :
       \E res \in FetchResults(req, Prefixes(MaxRespQuotes)) :
         handleSubmitSettled(req, res) /\ UNCHANGED <<log, uploadVars>>
  \/ \E id \in PossibleIds : onMouseEnter(id) /\ UNCHANGED <<log, uploadVars>>
  \/ \E id \in PossibleIds : onMouseLeave(id) /\ UNCHANGED <<log, uploadVars>>
  \/ \E id \in PossibleIds : onPinClick(id) /\ UNCHANGED <<log, uploadVars>>

SpecGated == Init /\ [][NextGated]_vars

----------------------------------------------------------------------------
(* The coordinator driven through its rendered controls only: the two mode *)
(* buttons, the inputs, the submit button of the form (rendered once a     *)
(* mode is chosen, disabled while loading), the cards and the pins.        *)

\* {mode && <form onSubmit={handleSubmit}> ...}
FormRendered == mode # NoMode

NextControls ==
  \/ \E nextMode \in ModeButtons : handleModeChange(nextMode) /\ UNCHANGED <<log, uploadVars>>
  \/ \E field \in Fields, value \in Texts :
       updateVehicle(field, value) /\ UNCHANGED <<log, uploadVars>>
  \/ \E i \in 1..Len(SERVICE_OPTIONS) :
       setServiceName(SERVICE_OPTIONS[i]) /\ UNCHANGED <<log, uploadVars>>
  \/ FormRendered /\ SubmitEnabled /\ handleSubmit /\ UNCHANGED <<log, uploadVars>>
  \/ \E req \in Endpoints :
       \E res \in FetchResults(req, Prefixes(MaxRespQuotes)) :
         handleSubmitSettled(req, res) /\ UNCHANGED <<log, uploadVars>>
  \/ \E id \in PossibleIds : onMouseEnter(id) /\ UNCHANGED <<log, uploadVars>>
  \/ \E id \in PossibleIds : onMouseLeave(id) /\ UNCHANGED <<log, uploadVars>>
  \/ \E id \in PossibleIds : onPinClick(id) /\ UNCHANGED <<log, uploadVars>>

SpecControls == Init /\ [][NextControls]_vars

----------------------------------------------------------------------------
(* Overlapping submits: handleSubmit is called again while earlier calls   *)
(* are suspended at their fetch, and the requests are answered in any      *)
(* order.  log records each request as it is issued and each answer as it  *)
(* is handled.                                                             *)

Issued(endpoint) == [kind |-> "issued", endpoint |-> endpoint, res |-> Null]
Resolved(endpoint, res) ==
  [kind |-> "resolved", endpoint |-> endpoint, res |-> Some(res)]

IssuedCount == Cardinality({ i \in 1..Len(log) : log[i].kind = "issued" })

NextRace ==
  \/ \E nextMode \in ModeButtons :
       handleModeChange(nextMode) /\ UNCHANGED <<log, uploadVars>>
  \/ /\ FormRendered
     /\ IssuedCount < MaxInflight
     /\ handleSubmit
     /\ log' = Append(log, Issued(Request.endpoint))
     /\ UNCHANGED uploadVars
  \/ \E req \in Endpoints :
       \E res \in FetchResults(req, Prefixes(MaxRespQuotes)) :
         /\ handleSubmitSettled(req, res)
         /\ log' = Append(log, Resolved(req, res))
         /\ UNCHANGED uploadVars

SpecRace == Init /\ [][NextRace]_vars

----------------------------------------------------------------------------
(* The upload page.  setTimeout hands the callback to the browser, which   *)
(* runs it once its delay has passed unless clearTimeout removed it first; *)
(* callbacks that are due run before time moves on, in the order they      *)
(* were set.  The page's markup is not part of the sources: the progress   *)
(* container starts hidden and the bar empty.                              *)

stages ==
  << [label |-> "Scanning Invoice...", progress |-> 35],
     [label |-> "Checking Manufacturer Data...", progress |-> 68],
     [label |-> "Comparing Labor Rates...", progress |-> 100] >>

\* 600 * (index + 1), index from 0
StageDelay(index) == 600 * (index + 1)
RedirectDelay == 2000

Timer(id, delay, kind, index) ==
  [id |-> id, left |-> delay, kind |-> kind, index |-> index,
   start |-> starts + 1]

Range(seq) == { seq[i] : i \in 1..Len(seq) }

\* progressTimeouts.forEach((timeout) => clearTimeout(timeout))
clearProgressForgets(pending) == pending
clearProgress(pending) ==
  { t \in pending : t.id \notin Range(progressTimeouts) }

\* The timers of stages.forEach(...), and the redirect timer set after them.
StageTimers ==
  { Timer(nextTimerId + index, StageDelay(index), "stage", index) :
      index \in 0..(Len(stages) - 1) }
RedirectTimer ==
  Timer(nextTimerId + Len(stages), RedirectDelay, "redirect", Len(stages))

startSimulation ==
  /\ starts < MaxStarts
  /\ starts' = starts + 1
  /\ redirects' = 0
  /\ cancelled' = cancelled + Cardinality(timers \ clearProgress(timers))
  /\ timers' = clearProgress(timers) \union StageTimers \union {RedirectTimer}
  /\ progressTimeouts' = [i \in 1..(Len(stages) + 1) |-> nextTimerId + i - 1]
  /\ nextTimerId' = nextTimerId + Len(stages) + 1
  /\ display' = "block"
  /\ width' = 0
  /\ label' = "Preparing scan..."
  /\ UNCHANGED <<href, unloaded>>

handleFile == startSimulation

\* What startSimulation writes, left alone when no file was given.
simulation ==
  <<progressTimeouts, timers, nextTimerId, display, width, label, href,
    unloaded, starts, redirects, cancelled>>

\* fileInput "change": files is fileInput.files.length
change(files) ==
  /\ ~unloaded
  /\ IF files > 0 THEN handleFile ELSE UNCHANGED simulation
  /\ UNCHANGED boxActive

dragover ==
  /\ ~unloaded
  /\ boxActive' = TRUE
  /\ UNCHANGED simulation

dragleave ==
  /\ ~unloaded
  /\ boxActive' = FALSE
  /\ UNCHANGED simulation

\* uploadBox "drop": files is event.dataTransfer.files.length
drop(files) ==
  /\ ~unloaded
  /\ boxActive' = FALSE
  /\ IF files > 0 THEN handleFile ELSE UNCHANGED simulation

\* The browser runs a timer that is due: a stage callback or the redirect.
timeout(t) ==
  /\ ~unloaded
  /\ t \in timers
  /\ t.left = 0
  /\ \A u \in timers : u.left = 0 => t.id <= u.id
  /\ timers' = timers \ {t}
  /\ IF t.kind = "stage"
       THEN /\ width' = stages[t.index + 1].progress
            /\ label' = stages[t.index + 1].label
            /\ UNCHANGED <<href, redirects>>
       ELSE /\ href' = "dashboard.html"
            /\ redirects' = redirects + 1
            /\ UNCHANGED <<width, label>>
  /\ UNCHANGED <<progressTimeouts, nextTimerId, display, unloaded, boxActive,
                 starts, cancelled>>

\* Time passes: by d, or up to the moment the next timer comes due if
\* that is sooner.
Durations == {200, 300}

NextDue == CHOOSE m \in { t.left : t \in timers } : \A t \in timers : m <= t.left

elapse(d) ==
  /\ ~unloaded
  /\ timers # {}
  /\ NextDue > 0
  /\ LET passed == IF d <= NextDue THEN d ELSE NextDue
     IN timers' = { [t EXCEPT !.left = @ - passed] : t \in timers }
  /\ UNCHANGED <<progressTimeouts, nextTimerId, display, width, label, href,
                 unloaded, boxActive, starts, redirects, cancelled>>

\* The navigation started by the redirect replaces the page.
unload ==
  /\ ~unloaded
  /\ href = "dashboard.html"
  /\ unloaded' = TRUE
  /\ UNCHANGED <<progressTimeouts, timers, nextTimerId, display, width, label,
                 href, boxActive, starts, redirects, cancelled>>

FileCounts == {0, 1}

NextUpload ==
  \/ \E files \in FileCounts : change(files) /\ UNCHANGED coordinatorVars
  \/ dragover /\ UNCHANGED coordinatorVars
  \/ dragleave /\ UNCHANGED coordinatorVars
  \/ \E files \in FileCounts : drop(files) /\ UNCHANGED coordinatorVars
  \/ \E t \in timers : timeout(t) /\ UNCHANGED coordinatorVars
  \/ \E d \in Durations : elapse(d) /\ UNCHANGED coordinatorVars
  \/ unload /\ UNCHANGED coordinatorVars

SpecUpload == Init /\ [][NextUpload]_vars

----------------------------------------------------------------------------
(* Properties.                                                             *)

Settled(endpoint, outcome) == Event("handleSubmitSettled", endpoint, outcome)

\* C1: in every reachable state at most one of quotes and schedule is
\* non-null, overlapping submits and mode switches included.
C1_QuotesScheduleExclusive == quotes = Null \/ schedule = Null

\* A /quotes response that arrived after the mode had been switched to
\* schedule, a /schedule request still being in flight.
C1_Witness ==
  /\ lastEvent = Settled("/quotes", "body")
  /\ mode = "schedule"
  /\ quotes # Null
  /\ inflight["/schedule"] > 0

\* C2: right after handleModeChange(next), whatever the state before and
\* also when next is the current mode, mode is next and quotes, schedule,
\* mapCenter, activeQuoteId and error are all null.
C2_ModeChangeClears ==
  lastEvent.op = "handleModeChange" =>
    /\ mode = lastEvent.on
    /\ quotes = Null
    /\ schedule = Null
    /\ mapCenter = Null
    /\ activeQuoteId = Null
    /\ error = Null

\* Quote mode selected while a request is in flight.
C2_Witness ==
  /\ lastEvent = Event("handleModeChange", "quote", "-")
  /\ mode = "quote"
  /\ activeQuoteId = Null
  /\ mapCenter = Null
  /\ loading = TRUE

\* C3: handleSubmit called while mode is null makes no request and changes
\* no state cell, whatever the vehicle input and the state are.
C3_SubmitWithoutModeIsNoOp ==
  [][ (lastEvent'.op = "handleSubmit" /\ mode = NoMode) =>
        UNCHANGED <<mode, vehicle, serviceName, loading, error, quotes,
                    schedule, mapCenter, activeQuoteId, inflight>> ]_vars

\* The guard taken while an earlier request is still in flight.
C3_Witness ==
  /\ lastEvent = Event("handleSubmit", "-", "-")
  /\ mode = NoMode
  /\ loading = TRUE
  /\ inflight["/quotes"] > 0

\* C4 as claimed: after a non-2xx answer of /quotes, error is the quotes
\* message and quotes is null, whatever happened before.
C4_NotOkLeavesQuotesNull ==
  lastEvent = Settled("/quotes", "notOk") =>
    (error = Some(QUOTES_FAILED) /\ quotes = Null)

\* C4 as amended: a non-2xx answer of /quotes sets error to the quotes
\* message and leaves quotes (and schedule, mapCenter, activeQuoteId) as
\* they were before the answer.
C4_NotOkSetsErrorKeepsResults ==
  [][ lastEvent' = Settled("/quotes", "notOk") =>
        /\ error' = Some(QUOTES_FAILED)
        /\ UNCHANGED <<quotes, schedule, mapCenter, activeQuoteId>> ]_vars

\* A non-2xx answer of /quotes with the quotes of an earlier fetch on screen.
C4_Witness ==
  /\ lastEvent = Settled("/quotes", "notOk")
  /\ mode = "quote"
  /\ quotes # Null
  /\ error = Some(QUOTES_FAILED)

\* C5: when the fetch/parse sequence throws for a reason other than a
\* non-2xx status (fetch rejects, json() rejects, the /quotes body is null),
\* the error shown is the generic message.
C5_ThrownErrorShowsGenericMessage ==
  ( /\ lastEvent.op = "handleSubmitSettled"
    /\ \/ lastEvent.outcome \in {"fetchRejects", "jsonRejects"}
       \/ lastEvent.outcome = "nullBody" /\ lastEvent.on = "/quotes" )
  => error = Some(GENERIC_FAILED)

\* C6: every way a request settles (2xx, non-2xx, an exception) ends with
\* loading false.
C6_SettledClearsLoading ==
  lastEvent.op = "handleSubmitSettled" => loading = FALSE

\* An exception path taken while another request is still in flight.
C6_Witness ==
  /\ lastEvent = Settled("/schedule", "jsonRejects")
  /\ inflight["/quotes"] > 0
  /\ loading = FALSE

\* C7: a 2xx /schedule answer with a null body leaves the state a 2xx
\* answer with an empty array leaves: schedule the empty sequence (so the
\* empty-state message is rendered in schedule mode), quotes null, error as
\* before, loading false.
C7_NullScheduleIsEmpty ==
  [][ ( /\ lastEvent'.op = "handleSubmitSettled"
        /\ lastEvent'.on = "/schedule"
        /\ lastEvent'.outcome \in {"nullBody", "emptyArray"} ) =>
        /\ schedule' = Some(<< >>)
        /\ quotes' = Null
        /\ error' = error
        /\ loading' = FALSE
        /\ UNCHANGED <<mode, vehicle, serviceName, mapCenter, activeQuoteId>>
        /\ mode' = "schedule" => ScheduleSection' = "empty" ]_vars

\* The null body arriving in schedule mode.
C7_Witness ==
  /\ lastEvent = Settled("/schedule", "nullBody")
  /\ mode = "schedule"
  /\ ScheduleSection = "empty"

\* The quotes on screen, the empty list when there are none.
CurrentQuotes == IF quotes = Null THEN << >> ELSE Val(quotes)

DealerPositions == { i \in 1..Len(CurrentQuotes) : CurrentQuotes[i].type = "Dealer" }

RECURSIVE SumAt(_, _)
SumAt(q, positions) ==
  IF positions = {} THEN 0
  ELSE LET i == CHOOSE x \in positions : TRUE
       IN q[i].price + SumAt(q, positions \ {i})

\* C8: dealerAverage is 0 without Dealer quotes and otherwise the mean of
\* the Dealer prices of the current quotes rounded to the nearest integer,
\* a half going up; prices 1000 and 1200 give 1100.
C8_DealerAverage ==
  LET n == Cardinality(DealerPositions)
      sum == SumAt(CurrentQuotes, DealerPositions)
  IN /\ n = 0 => dealerAverage = 0
     /\ n > 0 => /\ 2 * n * dealerAverage - n <= 2 * sum
                 /\ 2 * sum < 2 * n * dealerAverage + n
     /\ (n = 2 /\ sum = 2200) => dealerAverage = 1100

\* Dealer prices 1000 and 1201: the mean 1100.5 goes up to 1101.
C8_Witness ==
  /\ lastEvent = Settled("/quotes", "body")
  /\ Len(dealers) = 2
  /\ Total(dealers) = 2201
  /\ dealerAverage = 1101

\* C9: for every independent shop, savings is max(0, dealerAverage - price):
\* never negative, 200 for 900 against 1100, 0 for 1200 against 1100; the
\* Save line is shown exactly when the average exceeds the price, so never
\* without Dealer quotes.
C9_Savings ==
  \A i \in 1..Len(indys) :
    LET price == indys[i].price
        savings == Savings(indys[i])
    IN /\ savings >= 0
       /\ dealerAverage >= price => savings = dealerAverage - price
       /\ dealerAverage < price => savings = 0
       /\ (dealerAverage = 1100 /\ price = 900) => savings = 200
       /\ (dealerAverage = 1100 /\ price = 1200) => savings = 0
       /\ ShowsSave(indys[i]) <=> dealerAverage > price
       /\ Len(dealers) = 0 => ~ShowsSave(indys[i])

\* An independent shop at 1200 against a dealer average of 1100.
C9_Witness ==
  /\ dealerAverage = 1100
  /\ \E i \in 1..Len(indys) :
       indys[i].price = 1200 /\ Savings(indys[i]) = 0 /\ ~ShowsSave(indys[i])

ExpectedIds == << "quote-0", "quote-1", "quote-2", "quote-3", "quote-4" >>

\* C10: quotesWithId has the length of quotes, its i-th entry is the i-th
\* quote with the id "quote-i" (from 0), the ids are pairwise distinct, and
\* it is empty when quotes is null.
C10_QuotesWithId ==
  /\ Len(quotesWithId) = Len(CurrentQuotes)
  /\ \A i \in 1..Len(quotesWithId) :
       /\ quotesWithId[i].id = ExpectedIds[i]
       /\ [f \in DOMAIN CurrentQuotes[i] |-> quotesWithId[i][f]] = CurrentQuotes[i]
       /\ DOMAIN quotesWithId[i] = DOMAIN CurrentQuotes[i] \union {"id"}
  /\ \A i, j \in 1..Len(quotesWithId) :
       i # j => quotesWithId[i].id # quotesWithId[j].id
  /\ quotes = Null => quotesWithId = << >>

\* A fetch of three quotes.
C10_Witness ==
  /\ lastEvent = Settled("/quotes", "body")
  /\ Len(quotesWithId) = 3
  /\ quotesWithId[3].id = "quote-2"

\* C11: a handleSubmit call made while mode is quote or schedule sets
\* loading, clears error and issues exactly one request, to /quotes in quote
\* mode and to /schedule in schedule mode, with the parameters of that
\* branch; it leaves quotes, schedule, mapCenter and activeQuoteId as they
\* were.
C11_SubmitIssuesOneRequest ==
  [][ (lastEvent'.op = "handleSubmit" /\ mode \in {"quote", "schedule"}) =>
        LET endpoint == IF mode = "quote" THEN "/quotes" ELSE "/schedule"
            other == IF mode = "quote" THEN "/schedule" ELSE "/quotes"
            names == IF mode = "quote"
                       THEN {"service_name", "make", "model", "year", "zip_code"}
                       ELSE {"make", "model", "year", "mileage"}
        IN /\ loading' = TRUE
           /\ error' = Null
           /\ inflight'[endpoint] = inflight[endpoint] + 1
           /\ inflight'[other] = inflight[other]
           /\ lastEvent'.sent # Null
           /\ Val(lastEvent'.sent).endpoint = endpoint
           /\ DOMAIN Val(lastEvent'.sent).params = names
           /\ UNCHANGED <<quotes, schedule, mapCenter, activeQuoteId>> ]_vars

\* A schedule request issued with the quotes of an earlier answer still in
\* the state.
C11_Witness ==
  /\ lastEvent.op = "handleSubmit"
  /\ lastEvent.on = "/schedule"
  /\ mode = "schedule"
  /\ loading = TRUE
  /\ error = Null
  /\ quotes # Null
  /\ inflight["/schedule"] = 1

\* The answer handled last, where log is kept.
LastAnswer == Val(log[Len(log)].res)

\* C12: handling a 2xx /quotes answer (its body an object) makes quotes the
\* body's quotes, the empty sequence when the field is absent, and schedule
\* null; mapCenter becomes the body's center when center.lat and center.lng
\* are both present and not 0, and otherwise keeps its value.
C12_QuotesAnswerApplied ==
  [][ lastEvent' = Settled("/quotes", "body") =>
        LET data == Val(LastAnswer'.data)
            usable == /\ data.center # Null
                      /\ Val(data.center).lat \notin {Null, Some(0)}
                      /\ Val(data.center).lng \notin {Null, Some(0)}
        IN /\ quotes' = IF data.quotes = Null THEN Some(<< >>) ELSE data.quotes
           /\ schedule' = Null
           /\ mapCenter' =
                IF usable
                  THEN Some([lat |-> Val(Val(data.center).lat),
                             lng |-> Val(Val(data.center).lng)])
                  ELSE mapCenter ]_vars

\* An answer with quotes and a center whose lat is 0, handled with no
\* center set before it.
C12_Witness ==
  /\ lastEvent = Settled("/quotes", "body")
  /\ LastAnswer.data # Null
  /\ Val(LastAnswer.data).center = Some([lat |-> Some(0), lng |-> Some(-122)])
  /\ mode = "quote"
  /\ quotes # Null
  /\ Len(Val(quotes)) > 0
  /\ mapCenter = Null

\* Two requests were in flight together, every request issued has been
\* answered with a 2xx body that parsed, and the last answer has just been
\* handled.
Succeeded(entry) ==
  /\ Val(entry.res).tag = "body"
  /\ entry.endpoint = "/quotes" => Val(entry.res).data # Null

RaceSettled ==
  /\ Len(log) >= 4
  /\ log[1].kind = "issued"
  /\ log[2].kind = "issued"
  /\ Len(log) = 2 * IssuedCount
  /\ \A i \in 1..Len(log) : log[i].kind = "resolved" => Succeeded(log[i])
  /\ lastEvent.op = "handleSubmitSettled"

\* C13: after two overlapping submits have both succeeded, quotes, schedule
\* and mapCenter are those of the answer handled last, whichever request
\* was issued first: a /quotes answer leaves its quotes, no schedule and its
\* center (when it has a usable one); a /schedule answer leaves its
\* schedule, no quotes and no map center of the other answer.
C13_LastResolvedWins ==
  RaceSettled =>
    LET last == log[Len(log)]
        body == LastAnswer.data
    IN IF last.endpoint = "/quotes"
         THEN /\ quotes = IF Val(body).quotes = Null
                             THEN Some(<< >>) ELSE Val(body).quotes
              /\ schedule = Null
              /\ Val(body).center = Some([lat |-> Some(37), lng |-> Some(-122)])
                   => mapCenter = Some([lat |-> 37, lng |-> -122])
         ELSE /\ schedule = IF body = Null THEN Some(<< >>) ELSE body
              /\ quotes = Null
              /\ mapCenter = Null

\* C14: in every reachable state, overlapping submits included, loading
\* false means that no request is in flight.
C14_NotLoadingMeansIdle == loading = FALSE => InFlight = 0

\* Where quotesWithId holds an entry (ids are distinct, so at most one place).
PositionOf(entry) ==
  CHOOSE i \in 1..Len(quotesWithId) : quotesWithId[i] = entry

Occurrences(list, entry) ==
  Cardinality({ k \in 1..Len(list) : list[k] = entry })

KeepsOrder(list) ==
  \A k, l \in 1..Len(list) :
    k < l => PositionOf(list[k]) < PositionOf(list[l])

\* C15: every entry of quotesWithId is in exactly one of dealers and indys,
\* once; dealers holds exactly the entries of type Dealer and indys exactly
\* those of type Indy; each list is in the order of quotesWithId.
C15_DealersIndysPartition ==
  /\ \A i \in 1..Len(quotesWithId) :
       /\ Occurrences(dealers, quotesWithId[i])
            + Occurrences(indys, quotesWithId[i]) = 1
       /\ Occurrences(dealers, quotesWithId[i]) = 1
            <=> quotesWithId[i].type = "Dealer"
       /\ Occurrences(indys, quotesWithId[i]) = 1
            <=> quotesWithId[i].type = "Indy"
  /\ \A k \in 1..Len(dealers) :
       \E i \in 1..Len(quotesWithId) : quotesWithId[i] = dealers[k]
  /\ \A k \in 1..Len(indys) :
       \E i \in 1..Len(quotesWithId) : quotesWithId[i] = indys[k]
  /\ KeepsOrder(dealers)
  /\ KeepsOrder(indys)

\* Indy, Dealer, Indy: the two independent shops are the first and the
\* third entry of the answer.
C15_Witness ==
  /\ Len(quotesWithId) = 3
  /\ Len(dealers) = 1
  /\ Len(indys) = 2
  /\ dealers[1].id = "quote-1"
  /\ indys[1].id = "quote-0"
  /\ indys[2].id = "quote-2"

\* C16: handleModeChange leaves every vehicle field, the service name and
\* loading as they were, and neither issues nor drops a request.
C16_ModeChangeFrame ==
  [][ lastEvent'.op = "handleModeChange" =>
        /\ \A f \in Fields : vehicle'[f] = vehicle[f]
        /\ serviceName' = serviceName
        /\ loading' = loading
        /\ inflight' = inflight ]_vars

\* A mode switch with a field typed and a request in flight.
C16_Witness ==
  /\ lastEvent = Event("handleModeChange", "schedule", "-")
  /\ vehicle.make = TypedText
  /\ loading = TRUE
  /\ inflight["/quotes"] = 1

\* C17: in every reachable state quotes is non-null only in quote mode and
\* schedule is non-null only in schedule mode.
C17_ResultsMatchMode ==
  /\ quotes # Null => mode = "quote"
  /\ schedule # Null => mode = "schedule"

\* C18: in every reachable state activeQuoteId is null or the id of an
\* entry of quotesWithId.
C18_ActiveQuoteIdNotDangling ==
  activeQuoteId = Null \/ Val(activeQuoteId) \in Ids(quotesWithId)

\* C19: in every reachable state mapCenter is non-null only when quotes is
\* non-null.
C19_MapCenterOnlyWithQuotes == mapCenter # Null => quotes # Null

\* C20: with the form submitted only while loading is false, at most one
\* request is in flight and loading is true exactly when one is, whatever
\* mode switches, edits and hover or pin events happen meanwhile.
C20_GatedOneInFlight ==
  /\ InFlight <= 1
  /\ loading = TRUE <=> InFlight = 1

\* A card hovered while the refetch of the quotes is in flight.
C20_Witness ==
  /\ lastEvent.op = "onMouseEnter"
  /\ loading = TRUE
  /\ InFlight = 1
  /\ activeQuoteId # Null

\* C21: once a 2xx /quotes answer has been handled in quote mode, the quote
\* comparison (map and lists) is rendered, also when the answer carried no
\* usable center.
C21_QuotesShownAfterAnswer ==
  (lastEvent = Settled("/quotes", "body") /\ mode = "quote")
    => QuoteSectionShown

\* The steps the progress bar may take between two starts.
ProgressSteps == { <<0, 35>>, <<35, 68>>, <<68, 100>> }

\* C22: whatever file and drop events occur, every pending timer belongs to
\* the most recent startSimulation (the timers of earlier starts were
\* cancelled); between starts the bar only moves 0, 35, 68, 100 in that
\* order; and the redirect runs at most once per start, with the bar at 100.
C22_UploadSimulation ==
  [][ /\ \A t \in timers' : t.start = starts'
      /\ starts' = starts =>
           (width' = width \/ <<width, width'>> \in ProgressSteps)
      /\ starts' # starts => width' = 0
      /\ redirects' <= 1
      /\ redirects' # redirects /\ starts' = starts => width = 100
      /\ redirects' = 1 => width' = 100 ]_vars

\* A second file given while the timers of the first scan were pending,
\* and the second scan run to its redirect.
C22_Witness ==
  /\ starts = 2
  /\ cancelled > 0
  /\ width = 100
  /\ redirects = 1
  /\ href = "dashboard.html"
  /\ timers = {}

====
